---- MODULE Spec2Model ----
(***************************************************************************)
(* Model of the OpenJPH wrapper (Sources/OpenJPH/openjph_wrapper.cpp):     *)
(* ojph_decode_image, decode_codestream, ojph_free_image, write_error and  *)
(* the saturating conversions clamp_to_uint16 / clamp_to_uint8.            *)
(*                                                                         *)
(* The decoding engine (ojph::codestream, ojph::mem_infile) is an external *)
(* collaborator: whatever it reports (metadata, lines, returned component  *)
(* index, faults) is drawn nondeterministically from small sets.           *)
(***************************************************************************)
EXTENDS Integers, Sequences, FiniteSets, TLC

\* ------------------------------------------------------------------ bounds
MaxW == 2
MaxH == 2
MaxComps == 2
MaxCalls == 2
MaxDepth == 17
ErrCap == 64

\* ------------------------------------------------------- program constants
\* number of values of the 16-bit containers (uint16_t components/bit_depth,
\* uint16_t samples)
U16Mod == 65536
\* number of values of the 8-bit container
U8Max == 255

NULL == 0

Min(a, b) == IF a < b THEN a ELSE b

Pow2(n) == 2 ^ n

\* the least component count that does not fit the 16-bit `components` field
WideComps == U16Mod

\* ------------------------------------------------------------ status codes
OJPH_STATUS_OK == "OK"
OJPH_STATUS_UNSUPPORTED == "UNSUPPORTED"
OJPH_STATUS_ERROR == "ERROR"

\* --------------------------------------------------------------- messages
MsgInvalidArgs == "invalid arguments"
MsgNoComponents == "codestream has no components"
MsgSubsampled == "subsampled components are not yet supported"
MsgDownsampling == "component downsampling mismatch is not supported"
MsgBitDepth == "mixed component bit depth is not supported"
MsgSigned == "mixed signed/unsigned components are not supported"
MsgPull == "failed to pull line from codestream"
MsgLayout == "unsupported line buffer layout"
MsgAlloc == "memory allocation failure"
MsgUnknown == "unknown OpenJPH error"
\* ex.what() of a std::exception raised by the engine or by std::vector
MsgWhat == "engine fault"
NoMsg == "<none>"
\* what the caller's error buffer holds before a call
PriorText == "<prior content>"

\* ------------------------------------------------------------ write_error
\* The error buffer is modelled by the message it was filled from and the
\* number of characters copied (the terminator follows them).
PriorErr == [text |-> PriorText, n |-> Len(PriorText)]

\* write_error with the capacity guard off by one (max_len <= 1 is a no-op)
write_error_offbyone(buf, dst, max_len, msg) ==
    IF ~dst \/ max_len <= 1 THEN buf
    ELSE [text |-> msg, n |-> Min(max_len - 1, Len(msg))]

write_error(buf, dst, max_len, msg) ==
    IF ~dst \/ max_len = 0 THEN buf
    ELSE [text |-> msg, n |-> Min(max_len - 1, Len(msg))]

\* 1 when write_error stores something, 0 when it is a no-op
Wrote(dst, max_len) == IF ~dst \/ max_len = 0 THEN 0 ELSE 1

\* ------------------------------------------------------------ conversions
\* static_cast<uint16_t>(int16_t(value)): the low 16 bits of value
ToU16(value) == value % U16Mod

\* the 16-bit pattern read back as a two's-complement number
AsInt16(bits) == IF bits >= U16Mod \div 2 THEN bits - U16Mod ELSE bits

Clamp(value, lo, hi) == IF value < lo THEN lo ELSE IF value > hi THEN hi ELSE value

clamp_to_uint16(value, bit_depth, is_signed) ==
    IF bit_depth >= 16 /\ ~is_signed
    THEN ToU16(Clamp(value, 0, U16Mod - 1))
    ELSE IF is_signed
         THEN ToU16(Clamp(value, -Pow2(bit_depth - 1), Pow2(bit_depth - 1) - 1))
         ELSE ToU16(Clamp(value, 0,
                          IF bit_depth >= 16 THEN U16Mod - 1 ELSE Pow2(bit_depth) - 1))

clamp_to_uint8(value, bit_depth) ==
    Clamp(value, 0, IF bit_depth >= 8 THEN U8Max ELSE Pow2(bit_depth) - 1) % (U8Max + 1)

\* ------------------------------------------------------ ojph_decoded_image
ZeroImage ==
    [width |-> 0, height |-> 0, components |-> 0, bit_depth |-> 0,
     is_signed |-> 0, is_float |-> 0, reserved |-> 0, pixel_count |-> 0,
     pixels8 |-> NULL, pixels16 |-> NULL]

\* the argument check of ojph_decode_image with the length test left out
InvalidArgumentsNoLength(data, length, out) == ~data \/ ~out

\* data, out: TRUE when the pointer is non-null
InvalidArguments(data, length, out) == ~data \/ length = 0 \/ ~out

\* the entry of ojph_decode_image with the memset left out
ClearOutImageKeep(image) == image

\* std::memset(out_image, 0, sizeof(*out_image))
ClearOutImage(image) == ZeroImage

\* free(p) for every non-null p among ps: one more free of that buffer
FreeAll(counts, ps) ==
    [b \in DOMAIN counts |->
        counts[b] + Cardinality({i \in DOMAIN ps : ps[i] = b})]

\* ojph_free_image without the final memset
ojph_free_image_nozero(image, counts) ==
    [img |-> image,
     counts |-> FreeAll(counts, <<image.pixels8, image.pixels16>>)]

\* ojph_free_image on a non-null entity: the entity and the heap afterwards
ojph_free_image(image, counts) ==
    [img |-> ZeroImage,
     counts |-> FreeAll(counts, <<image.pixels8, image.pixels16>>)]

\* ------------------------------------------------- what the engine reports
\* one component's descriptor as param_siz reports it
Desc(w, h, dx, depth, sgn) ==
    [w |-> w, h |-> h, ds |-> <<dx, 1>>, depth |-> depth, signed |-> sgn]

Depths == {8, 12}

Canon ==
    { Desc(w, h, 1, d, s) : w \in 0..MaxW, h \in 0..MaxH, d \in Depths, s \in BOOLEAN }

OtherDepth(d) == IF d = 8 THEN 12 ELSE 8

\* the fields in which a further component may deviate from component 0
Deviations ==
    { {}, {"w"}, {"ds"}, {"depth"}, {"signed"}, {"h", "depth"}, {"depth", "signed"} }

Deviate(d0, f) ==
    [w |-> IF "w" \in f THEN d0.w + 1 ELSE d0.w,
     h |-> IF "h" \in f THEN d0.h + 1 ELSE d0.h,
     ds |-> IF "ds" \in f THEN <<d0.ds[1] + 1, d0.ds[2]>> ELSE d0.ds,
     depth |-> IF "depth" \in f THEN OtherDepth(d0.depth) ELSE d0.depth,
     signed |-> IF "signed" \in f THEN ~d0.signed ELSE d0.signed]

\* codestreams with nc components; comps[c + 1] describes component c
StreamsOf(nc) ==
    IF nc = 0 THEN { [nc |-> 0, comps |-> <<>>] }
    ELSE { [nc |-> nc,
            comps |-> [i \in 1..nc |-> IF i = 1 THEN d0 ELSE Deviate(d0, dev[i])]] :
           d0 \in Canon, dev \in [1..nc -> Deviations] }

\* a codestream whose component count exceeds 16 bits: all components alike
WideStreams ==
    { [nc |-> WideComps, comps |-> <<Desc(1, 1, 1, 8, FALSE)>>] }

Codestreams(w) ==
    IF w THEN WideStreams ELSE UNION { StreamsOf(nc) : nc \in 0..MaxComps }

\* siz.get_*(c)
Comp(s, c) == IF c + 1 \in DOMAIN s.comps THEN s.comps[c + 1] ELSE s.comps[1]

\* components whose descriptor the codestream spells out
Listed(s) == { c \in 0..(s.nc - 1) : c + 1 \in DOMAIN s.comps }

\* --------------------------------------------------------- header checks
\* CheckComp with the signedness test ahead of the bit depth test
CheckCompSignFirst(s, c) ==
    IF Comp(s, c).w # Comp(s, 0).w \/ Comp(s, c).h # Comp(s, 0).h THEN MsgSubsampled
    ELSE IF Comp(s, c).ds # Comp(s, 0).ds THEN MsgDownsampling
    ELSE IF Comp(s, c).signed # Comp(s, 0).signed THEN MsgSigned
    ELSE IF Comp(s, c).depth # Comp(s, 0).depth THEN MsgBitDepth
    ELSE NoMsg

\* the message of the first failing check of component c, NoMsg when none
CheckComp(s, c) ==
    IF Comp(s, c).w # Comp(s, 0).w \/ Comp(s, c).h # Comp(s, 0).h THEN MsgSubsampled
    ELSE IF Comp(s, c).ds # Comp(s, 0).ds THEN MsgDownsampling
    ELSE IF Comp(s, c).depth # Comp(s, 0).depth THEN MsgBitDepth
    ELSE IF Comp(s, c).signed # Comp(s, 0).signed THEN MsgSigned
    ELSE NoMsg

\* the checks of decode_codestream before create: the message of the first
\* failure in scan order, NoMsg when the codestream is accepted
Validate(s) ==
    IF s.nc = 0 THEN MsgNoComponents
    ELSE LET bad == { c \in Listed(s) : c >= 1 /\ CheckComp(s, c) # NoMsg }
         IN IF bad = {} THEN NoMsg
            ELSE CheckComp(s, CHOOSE c \in bad : \A d \in bad : c <= d)

Width(s) == Comp(s, 0).w
Height(s) == Comp(s, 0).h
output_u8(s) == Comp(s, 0).depth <= 8 /\ ~Comp(s, 0).signed
total_samples(s) == Width(s) * Height(s) * s.nc

\* ------------------------------------------------------------------ state
VARIABLES
    img,        \* the caller's result entity (ojph_decoded_image)
    errbuf,     \* the caller's error buffer
    freeCount,  \* buffer id -> number of times std::free was given it
    calls,      \* decode calls made so far
    lastOp,     \* "none", "decode" or "free": the call that returned last
    freeRun,    \* releases in a row (saturating at 2)
    wide,       \* TRUE when the engine reports WideStreams
    args,       \* the arguments of the decode call being / last served
    pc,         \* position inside ojph_decode_image, "idle" between calls
    cs,         \* what read_headers found
    row, comp,  \* loop counters of the pull loop
    line,       \* what the last cs.pull returned
    writes,     \* working-buffer indices written for the last line
    result,     \* the local `result` of std::malloc: -1 before, NULL or a buffer id
    ops,        \* steps of decode_codestream executed in this call
    destroyed,  \* the locals cs/input/buffers went out of scope
    status,     \* the status the last decode call returned
    msg,        \* the message the call handed to write_error
    errWrites,  \* write_error stores made by the call
    conv        \* the last sample conversion: its inputs and the stored value

vars == <<img, errbuf, freeCount, calls, lastOp, freeRun, wide, args, pc, cs,
          row, comp, line, writes, result, ops, destroyed, status, msg, errWrites,
          conv>>

caller == <<img, errbuf, freeCount, calls, lastOp, freeRun, wide, conv>>
loop == <<row, comp, line, writes>>

NoStream == [nc |-> 0, comps |-> <<>>]
NoLine == [kind |-> "none", size |-> 0]
NoConv == [fn |-> "none", value |-> 0, depth |-> 0, signed |-> FALSE, out |-> 0]
NoArgs == [data |-> FALSE, length |-> 0, out |-> FALSE, err |-> FALSE, errlen |-> 0]

\* the pointer/length arguments a caller may pass: all valid, each one
\* invalid alone, all invalid
InputArgs ==
    { <<TRUE, 1, TRUE>>, <<FALSE, 1, TRUE>>, <<TRUE, 0, TRUE>>, <<TRUE, 1, FALSE>>,
      <<FALSE, 0, FALSE>> }

\* the error buffers a caller may pass: none, and capacities 0, 1 and ErrCap
ErrorArgs == { <<FALSE, ErrCap>>, <<TRUE, 0>>, <<TRUE, 1>>, <<TRUE, ErrCap>> }

\* the argument tuples of a call; the wide codestreams are decoded with valid
\* arguments and a full-size error buffer only
ArgSets(w) ==
    IF w THEN { [data |-> TRUE, length |-> 1, out |-> TRUE, err |-> TRUE,
                 errlen |-> ErrCap] }
    ELSE { [data |-> a[1], length |-> a[2], out |-> a[3], err |-> e[1],
            errlen |-> e[2]] : a \in InputArgs, e \in ErrorArgs }

InitCommon ==
    /\ img = ZeroImage
    /\ errbuf = PriorErr
    /\ freeCount = <<>>
    /\ calls = 0
    /\ lastOp = "none"
    /\ freeRun = 0
    /\ args = NoArgs
    /\ pc = "idle"
    /\ cs = NoStream
    /\ row = 0 /\ comp = 0
    /\ line = NoLine
    /\ writes = {}
    /\ result = -1
    /\ ops = {}
    /\ destroyed = FALSE
    /\ status = "none"
    /\ msg = NoMsg
    /\ errWrites = 0
    /\ conv = NoConv

Init == InitCommon /\ wide = FALSE

InitWide == InitCommon /\ wide = TRUE

\* ------------------------------------------------------------- the exits
\* `return false` of decode_codestream after write_error(m): the locals are
\* destroyed (the loop counters and the working buffer are gone),
\* ojph_decode_image maps false to OJPH_STATUS_UNSUPPORTED
ReturnFalse(m) ==
    /\ msg' = m
    /\ errbuf' = write_error(errbuf, args.err, args.errlen, m)
    /\ errWrites' = errWrites + Wrote(args.err, args.errlen)
    /\ destroyed' = TRUE
    /\ status' = OJPH_STATUS_UNSUPPORTED
    /\ pc' = "idle"
    /\ lastOp' = "decode"
    /\ freeRun' = 0
    /\ row' = 0 /\ comp' = 0 /\ writes' = {}
    /\ UNCHANGED <<img, freeCount, calls, wide, conv, args, cs>>

\* an exception leaves decode_codestream (locals destroyed by unwinding) and
\* is caught in ojph_decode_image: write_error, ojph_free_image, ERROR
Caught(m) ==
    /\ msg' = m
    /\ errbuf' = write_error(errbuf, args.err, args.errlen, m)
    /\ errWrites' = errWrites + Wrote(args.err, args.errlen)
    /\ destroyed' = TRUE
    /\ img' = ojph_free_image(img, freeCount).img
    /\ freeCount' = ojph_free_image(img, freeCount).counts
    /\ status' = OJPH_STATUS_ERROR
    /\ pc' = "idle"
    /\ lastOp' = "decode"
    /\ freeRun' = 0
    /\ row' = 0 /\ comp' = 0 /\ writes' = {} /\ line' = NoLine
    /\ UNCHANGED <<calls, wide, conv, args, cs>>

\* -------------------------------------------------------- ojph_decode_image
DecodeCall ==
    /\ pc = "idle"
    /\ calls < (IF wide THEN 1 ELSE MaxCalls)
    /\ \E a \in ArgSets(wide) :
        /\ args' = a
        /\ calls' = calls + 1
        /\ cs' = NoStream
        /\ row' = 0 /\ comp' = 0 /\ line' = NoLine /\ writes' = {}
        /\ result' = -1
        /\ ops' = {}
        /\ destroyed' = FALSE
        /\ freeRun' = 0
        /\ UNCHANGED <<freeCount, wide, conv>>
        /\ IF InvalidArguments(a.data, a.length, a.out)
           THEN /\ msg' = MsgInvalidArgs
                /\ errbuf' = write_error(PriorErr, a.err, a.errlen, MsgInvalidArgs)
                /\ errWrites' = Wrote(a.err, a.errlen)
                /\ status' = OJPH_STATUS_ERROR
                /\ pc' = "idle"
                /\ lastOp' = "decode"
                /\ img' = img
           ELSE /\ msg' = NoMsg
                /\ errbuf' = PriorErr
                /\ errWrites' = 0
                /\ status' = "none"
                /\ pc' = "open"
                /\ lastOp' = "decode"
                /\ img' = ClearOutImage(img)

\* input.open(codestream_data, length)
Open ==
    /\ pc = "open"
    /\ ops' = ops \cup {"open"}
    /\ pc' = "read_headers"
    /\ UNCHANGED <<caller, args, cs, loop, result, destroyed, status, msg, errWrites>>

\* cs.enable_resilience(); cs.read_headers(&input); siz = cs.access_siz()
ReadHeaders ==
    /\ pc = "read_headers"
    /\ \E s \in Codestreams(wide) : cs' = s
    /\ ops' = ops \cup {"read_headers"}
    /\ pc' = "validate"
    /\ UNCHANGED <<caller, args, loop, result, destroyed, status, msg, errWrites>>

\* the component count test and the homogeneity loop
ValidateStep ==
    /\ pc = "validate"
    /\ IF Validate(cs) # NoMsg
       THEN /\ ReturnFalse(Validate(cs))
            /\ UNCHANGED <<line, result, ops>>
       ELSE /\ pc' = "create"
            /\ UNCHANGED <<caller, args, cs, loop, result, ops, destroyed, status,
                           msg, errWrites>>

\* cs.set_planar(false); cs.create()
Create ==
    /\ pc = "create"
    /\ ops' = ops \cup {"create"}
    /\ pc' = "resize"
    /\ UNCHANGED <<caller, args, cs, loop, result, destroyed, status, msg, errWrites>>

\* buffers.u8/u16.resize(total_samples), then the loop heads
Resize ==
    /\ pc = "resize"
    /\ ops' = ops \cup {"resize"}
    /\ pc' = IF Height(cs) > 0 THEN "pull" ELSE "close"
    /\ UNCHANGED <<caller, args, cs, loop, result, destroyed, status, msg, errWrites>>

\* the component index cs.pull may hand back for a request of c: the one asked
\* for, the first, the last, or one past the last
ReturnedIndex(c, nc) == {c, 0, nc - 1, nc}

\* one iteration of the inner loop: cs.pull(comp_index), the resynchronisation,
\* the conversion of the line into the working buffer, ++comp / ++row
Pull ==
    /\ pc = "pull"
    /\ ops' = ops \cup {"pull"}
    /\ \/ /\ line' = [kind |-> "null", size |-> 0]
          /\ ReturnFalse(MsgPull)
          /\ UNCHANGED result
       \/ \E idx \in ReturnedIndex(comp, cs.nc), size \in 0..(Width(cs) + 1),
             kind \in {"int", "float", "other"} :
            LET samples_in_line == Min(size, Width(cs))
                base_index == (row * Width(cs)) * cs.nc + idx
            IN /\ line' = [kind |-> kind, size |-> size]
               /\ IF kind = "other"
                  THEN /\ ReturnFalse(MsgLayout)
                       /\ UNCHANGED result
                  ELSE /\ writes' = { base_index + x * cs.nc :
                                      x \in 0..(samples_in_line - 1) }
                       /\ IF idx + 1 < cs.nc
                          THEN row' = row /\ comp' = idx + 1 /\ pc' = "pull"
                          ELSE /\ row' = row + 1
                               /\ comp' = 0
                               /\ pc' = IF row + 1 < Height(cs) THEN "pull" ELSE "close"
                       /\ UNCHANGED <<caller, args, cs, result, destroyed, status,
                                      msg, errWrites>>

\* cs.close(); input.close()
Close ==
    /\ pc = "close"
    /\ ops' = ops \cup {"close"}
    /\ pc' = "malloc"
    /\ UNCHANGED <<caller, args, cs, loop, result, destroyed, status, msg, errWrites>>

\* the fields decode_codestream stores on success
Filled(s, p) ==
    [width |-> Width(s), height |-> Height(s),
     components |-> s.nc % U16Mod,
     bit_depth |-> Comp(s, 0).depth % U16Mod,
     is_signed |-> IF Comp(s, 0).signed THEN 1 ELSE 0,
     is_float |-> 0, reserved |-> 0,
     pixel_count |-> total_samples(s),
     pixels8 |-> IF output_u8(s) THEN p ELSE NULL,
     pixels16 |-> IF output_u8(s) THEN NULL ELSE p]

\* std::malloc of the caller-owned buffer, the copy and the result fields;
\* malloc may return NULL for any size
Malloc ==
    /\ pc = "malloc"
    /\ ops' = ops \cup {"malloc"}
    /\ \/ /\ result' = NULL
          /\ line' = NoLine
          /\ ReturnFalse(MsgAlloc)
       \/ /\ result' = Len(freeCount) + 1
          /\ freeCount' = Append(freeCount, 0)
          /\ img' = Filled(cs, Len(freeCount) + 1)
          /\ destroyed' = TRUE
          /\ status' = OJPH_STATUS_OK
          /\ pc' = "idle"
          /\ lastOp' = "decode"
          /\ freeRun' = 0
          /\ row' = 0 /\ comp' = 0 /\ writes' = {} /\ line' = NoLine
          /\ UNCHANGED <<errbuf, calls, wide, conv, args, cs, msg, errWrites>>

\* the steps that may raise: the engine calls and the vector resize
Raising == {"open", "read_headers", "create", "resize", "pull", "close"}

\* a step raises; std::exception carries what(), anything else is unknown
EngineFault ==
    /\ pc \in Raising
    /\ ops' = ops \cup {pc}
    /\ \E kind \in {"std", "other"} :
          /\ pc = "resize" => kind = "std"
          /\ Caught(IF kind = "std" THEN MsgWhat ELSE MsgUnknown)
    /\ UNCHANGED result

\* ---------------------------------------------------------- ojph_free_image
FreeCall ==
    /\ pc = "idle"
    /\ \/ /\ img' = ojph_free_image(img, freeCount).img
          /\ freeCount' = ojph_free_image(img, freeCount).counts
          /\ lastOp' = "free"
          /\ freeRun' = Min(freeRun + 1, 2)
       \/ /\ lastOp' = "free_null"
          /\ UNCHANGED <<img, freeCount, freeRun>>
    \* the record of the last decode call ends with the next call
    /\ args' = NoArgs /\ cs' = NoStream /\ line' = NoLine /\ result' = -1
    /\ ops' = {} /\ destroyed' = FALSE /\ status' = "none" /\ msg' = NoMsg
    /\ errWrites' = 0
    /\ UNCHANGED <<errbuf, calls, wide, conv, pc, row, comp, writes>>

Next ==
    \/ DecodeCall
    \/ Open
    \/ ReadHeaders
    \/ ValidateStep
    \/ Create
    \/ Resize
    \/ Pull
    \/ Close
    \/ Malloc
    \/ EngineFault
    \/ FreeCall

Spec == Init /\ [][Next]_vars

SpecWide == InitWide /\ [][Next]_vars

\* ------------------------------------------- the conversions on their own
SampleValues(d) ==
    { -100000, -65537, -65536, -32769, -32768, -129, -128, -1, 0, 1, 127, 128,
      255, 256, 32767, 32768, 40000, 65535, 65536, 100000 }
    \cup { Pow2(d - 1) - 1, Pow2(d - 1), -Pow2(d - 1), -Pow2(d - 1) - 1,
           Pow2(d) - 1, Pow2(d) }

\* a sample of a line on the 16-bit path (line 167): the path is taken when
\* the components are signed or deeper than 8 bits
Convert16 ==
    /\ \E d \in 1..MaxDepth, s \in BOOLEAN :
        /\ ~(d <= 8 /\ ~s)
        /\ \E v \in SampleValues(d) :
             conv' = [fn |-> "u16", value |-> v, depth |-> d, signed |-> s,
                      out |-> clamp_to_uint16(v, d, s)]
    /\ UNCHANGED <<img, errbuf, freeCount, calls, lastOp, freeRun, wide, args, pc,
                   cs, loop, result, ops, destroyed, status, msg, errWrites>>

\* a sample of a line on the 8-bit path (line 162): unsigned, depth <= 8
Convert8 ==
    /\ \E d \in 1..Min(8, MaxDepth) :
        \E v \in SampleValues(d) :
             conv' = [fn |-> "u8", value |-> v, depth |-> d, signed |-> FALSE,
                      out |-> clamp_to_uint8(v, d)]
    /\ UNCHANGED <<img, errbuf, freeCount, calls, lastOp, freeRun, wide, args, pc,
                   cs, loop, result, ops, destroyed, status, msg, errWrites>>

NextClamp == Convert16 \/ Convert8

SpecClamp == Init /\ [][NextClamp]_vars

\* ======================================================= the properties
\* a decode call has returned and nothing was called since
Returned == pc = "idle" /\ lastOp = "decode"

BothNull(i) == i.pixels8 = NULL /\ i.pixels16 = NULL
ExactlyOne(i) == (i.pixels8 = NULL) # (i.pixels16 = NULL)

\* what a valid error buffer holds after write_error(m)
Holds(buf, max_len, m) == buf.text = m /\ buf.n = Min(max_len - 1, Len(m))

\* C1: after every decode call given a result entity, status OK means exactly
\* one of pixels8 / pixels16 is non-null, and any other status means both
\* are null, whatever the entity held before the call.
C1_StatusDecidesBuffers ==
    (Returned /\ args.out) =>
        /\ status = OJPH_STATUS_OK => ExactlyOne(img)
        /\ status # OJPH_STATUS_OK => BothNull(img)

\* C2: a decode call with a null input, a zero length or a null result slot
\* returns ERROR with "invalid arguments", without any engine step (open,
\* read_headers, create, pull, close) and without any allocation.
C2_InvalidArguments ==
    (lastOp = "decode" /\ (~args.data \/ args.length = 0 \/ ~args.out)) =>
        /\ pc = "idle"
        /\ status = OJPH_STATUS_ERROR
        /\ msg = MsgInvalidArgs
        /\ ops = {}
        /\ result = -1
        /\ (args.err /\ args.errlen >= 1) => Holds(errbuf, args.errlen, MsgInvalidArgs)

C2_Witness ==
    /\ Returned /\ args.data /\ args.out /\ args.length = 0
    /\ status = OJPH_STATUS_ERROR
    /\ args.errlen = ErrCap /\ Holds(errbuf, ErrCap, MsgInvalidArgs)

\* some component c >= 1 differs from component 0 in bit depth
DepthMismatch(s) ==
    s.nc >= 2 /\ \E c \in 1..(s.nc - 1) : Comp(s, c).depth # Comp(s, 0).depth

\* the first difference the scan meets (components in increasing order; per
\* component geometry, downsampling, bit depth, signedness) is one of bit depth
FirstMismatchIsDepth(s) ==
    s.nc >= 2 /\ \E c \in 1..(s.nc - 1) :
        /\ Comp(s, c).depth # Comp(s, 0).depth
        /\ Comp(s, c).w = Comp(s, 0).w /\ Comp(s, c).h = Comp(s, 0).h
        /\ Comp(s, c).ds = Comp(s, 0).ds
        /\ \A b \in 1..(c - 1) : Comp(s, b) = Comp(s, 0)

NoPixelWork == ops \cap {"create", "resize", "pull", "close", "malloc"} = {} /\ result = -1

\* C3 as stated: every codestream in which some component c >= 1 differs from
\* component 0 in bit depth is answered UNSUPPORTED with the bit depth
\* message, before create, pull and any pixel buffer allocation.
C3_AnyDepthMismatch ==
    (Returned /\ DepthMismatch(cs)) =>
        /\ status = OJPH_STATUS_UNSUPPORTED
        /\ msg = MsgBitDepth
        /\ NoPixelWork

\* C3 amended: a codestream with a bit depth difference is answered
\* UNSUPPORTED before create, pull and any pixel buffer allocation; the
\* message is the bit depth one when that difference is the first mismatch
\* the scan meets.
C3_FirstMismatchBitDepth ==
    (Returned /\ DepthMismatch(cs)) =>
        /\ status = OJPH_STATUS_UNSUPPORTED
        /\ NoPixelWork
        /\ msg # NoMsg
        /\ FirstMismatchIsDepth(cs) =>
              /\ msg = MsgBitDepth
              /\ (args.err /\ args.errlen >= 1) => Holds(errbuf, args.errlen, MsgBitDepth)

C3_Witness ==
    /\ Returned /\ FirstMismatchIsDepth(cs)
    /\ \E c \in 1..(cs.nc - 1) : Comp(cs, c).signed # Comp(cs, 0).signed
    /\ status = OJPH_STATUS_UNSUPPORTED /\ msg = MsgBitDepth
    /\ args.errlen = ErrCap /\ Holds(errbuf, ErrCap, MsgBitDepth)

\* C4: when the pipeline completed and std::malloc of the caller-owned buffer
\* fails, the call returns ERROR with "memory allocation failure" and sets no
\* buffer handle.
C4_AllocFailureIsError ==
    (Returned /\ result = NULL) =>
        /\ status = OJPH_STATUS_ERROR
        /\ msg = MsgAlloc
        /\ BothNull(img)

\* C5: a release leaves the entity all zero, a release of an already zeroed
\* entity frees nothing, and no buffer is ever freed more than once.
C5_ReleaseIdempotent ==
    [][ /\ lastOp' = "free" =>
             /\ img' = ZeroImage
             /\ img = ZeroImage => freeCount' = freeCount
        /\ \A b \in DOMAIN freeCount' : freeCount'[b] <= 1 ]_vars

C5_Witness ==
    /\ lastOp = "free" /\ freeRun = 2 /\ img = ZeroImage
    /\ \E b \in DOMAIN freeCount : freeCount[b] = 1

\* C6: on status OK the stored fields satisfy
\* pixel_count = width * height * components.
C6_PixelCount ==
    (Returned /\ status = OJPH_STATUS_OK) =>
        img.pixel_count = img.width * img.height * img.components

\* the saturation table of the 16-bit path: the range a sample is clamped to
TableLo(d, s) == IF s THEN -Pow2(d - 1) ELSE 0
TableHi(d, s) ==
    IF s THEN Pow2(d - 1) - 1 ELSE IF d < 16 THEN Pow2(d) - 1 ELSE U16Mod - 1

\* C7: the stored value is the sample clamped to the table's range: read back
\* as a two's-complement number on the signed 16-bit path, as is on the
\* unsigned 16-bit path and on the 8-bit path; it never wraps.
C7_SaturationTable ==
    /\ (conv.fn = "u16" /\ conv.signed) =>
          AsInt16(conv.out) =
              Clamp(conv.value, TableLo(conv.depth, TRUE), TableHi(conv.depth, TRUE))
    /\ (conv.fn = "u16" /\ ~conv.signed) =>
          conv.out = Clamp(conv.value, 0, TableHi(conv.depth, FALSE))
    /\ conv.fn = "u8" =>
          conv.out = Clamp(conv.value, 0, Min(U8Max, Pow2(conv.depth) - 1))

\* C8: with a valid error buffer of capacity >= 1, a call that returns a
\* status other than OK has written its message, a call that returns OK has
\* left the buffer as it was, and no call writes more than once.
C8_ErrorChannel ==
    /\ errWrites <= 1
    /\ (Returned /\ args.err /\ args.errlen >= 1) =>
          /\ status # OJPH_STATUS_OK =>
                errWrites = 1 /\ msg # NoMsg /\ Holds(errbuf, args.errlen, msg)
          /\ status = OJPH_STATUS_OK => errWrites = 0 /\ errbuf = PriorErr

C8_Witness ==
    /\ Returned /\ args.err /\ args.errlen = 1
    /\ status = OJPH_STATUS_UNSUPPORTED /\ msg = MsgAlloc
    /\ errWrites = 1 /\ errbuf = [text |-> MsgAlloc, n |-> 0]

\* C9 as stated: when cs.pull returns no line the call fails with "failed to
\* pull line from codestream", the engine close has happened before the
\* return, no caller-owned buffer was allocated and the entity is all zero.
C9_PullFailureCloses ==
    (Returned /\ line.kind = "null") =>
        /\ msg = MsgPull
        /\ "close" \in ops
        /\ result = -1
        /\ img = ZeroImage

\* C9 amended: when cs.pull returns no line the call fails (UNSUPPORTED) with
\* that message after create; the engine objects are released by leaving
\* their scope, the explicit close step is not executed; no caller-owned
\* buffer was allocated and the entity is all zero.
C9_PullFailureUnwinds ==
    (Returned /\ line.kind = "null") =>
        /\ msg = MsgPull
        /\ status = OJPH_STATUS_UNSUPPORTED
        /\ "create" \in ops /\ "pull" \in ops
        /\ "close" \notin ops
        /\ destroyed
        /\ "malloc" \notin ops /\ result = -1
        /\ img = ZeroImage

C9_Witness ==
    /\ Returned /\ line.kind = "null" /\ msg = MsgPull
    /\ destroyed /\ img = ZeroImage /\ calls = 2
    /\ \E b \in DOMAIN freeCount : freeCount[b] = 0

\* C10: every index written for a line lies inside the working buffer.
C10_WritesInBounds ==
    \A i \in writes : 0 <= i /\ i < total_samples(cs)

====
